---- MODULE Spec2Model ----
(***************************************************************************)
(* Cognitive layer of dirsoul: derived views, the promotion gate and the   *)
(* versioned stable concepts (src/rust/src/cognitive.rs), with the view    *)
(* generator's expiry rule (src/rust/src/view_generator.rs).               *)
(*                                                                         *)
(* Time is counted in ticks, TicksPerDay ticks to a day, so that chrono's  *)
(* truncating num_days() is not the identity.  Confidences are hundredths  *)
(* (0.85 is 85).  A counter-evidence ratio c/e is compared with 0.15 and   *)
(* 0.30 by cross-multiplication: for the small integers used here the f64  *)
(* quotient c/e and the f64 literals round the same way, so                *)
(* c/e >= 0.15 iff 20c >= 3e and c/e > 0.3 iff 10c > 3e.                   *)
(*                                                                         *)
(* Further down: the plugin manager, the command router and the health     *)
(* monitor (src/rust/src/plugin.rs, permissions from src/rust/src/         *)
(* agents.rs), the resource-aware scheduler with its circuit breaker       *)
(* (src/rust/src/resource_manager.rs), the entity linker (src/rust/src/    *)
(* entity_linker.rs), event storage (src/rust/src/event_storage.rs) and    *)
(* the embedding cache (src/rust/src/embedding.rs).  Each part has its own *)
(* specification over the shared variables.                                *)
(***************************************************************************)
EXTENDS Integers, Sequences, FiniteSets, TLC

VARIABLES now, views, concepts,
          plugins, plugin_specs, call, events,
          usage, circuit_breaker, sys_time, decision,
          entities, raw_memories, event_memories, cache, job

\* the plugin runtime: the manager's two maps, the calls in flight and the
\* event store
pluginVars == <<plugins, plugin_specs, call, events>>

\* the resource-aware scheduler: the memory reading, its breaker, the system
\* clock and the last scheduling decision
schedVars == <<usage, circuit_breaker, sys_time, decision>>

\* the memory stores: the entity, raw-memory and event-memory tables, the
\* embedding cache and the storage calls in flight
storeVars == <<entities, raw_memories, event_memories, cache, job>>

runtimeVars == <<pluginVars, schedVars, storeVars>>

cogVars == <<now, views, concepts>>

vars == <<now, views, concepts, plugins, plugin_specs, call, events,
          usage, circuit_breaker, sys_time, decision,
          entities, raw_memories, event_memories, cache, job>>

(***************************************************************************)
(* Bounds                                                                  *)
(***************************************************************************)
TicksPerDay == 2
MaxCounter == 7
MaxValidation == 5
MaxConcepts == 4
MaxAccess == 1
TicksPerSec == 2

Days(n) == n * TicksPerDay

\* The instants at which the clock is observed.
TimePoints == {0, Days(18), Days(30) - 1, Days(30), Days(32)}

Users == {"u1", "u2"}
EventIds == {"e1"}
CanonicalNames == {"likes_fruit", "hates_fruit"}
ConfidenceInputs == {85, 90}
PatternConfidences == {60, 100}
EvidenceInputs == {0, 20}

NoId == 0

(***************************************************************************)
(* Strings.  A hypothesis is a sequence of characters; the Chinese         *)
(* characters of the source are written in pinyin, one name per character. *)
(***************************************************************************)
\* "yong hu xi huan chi shui guo": the user likes eating fruit
HypLikeFruit == <<"yong", "hu", "xi", "huan", "chi", "shui", "guo">>
\* "yong hu tao yan chi shui guo": the user hates eating fruit
HypHateFruit == <<"yong", "hu", "tao", "yan", "chi", "shui", "guo">>
\* "yong hu tao yan chi shu cai": the user hates eating vegetables
HypHateVeg == <<"yong", "hu", "tao", "yan", "chi", "shu", "cai">>

Hypotheses == {HypLikeFruit, HypHateFruit, HypHateVeg}

\* UTF-8 width of a character: ASCII is one byte, a CJK character three.
ByteWidth(c) == IF c \in {" ", "a"} THEN 1 ELSE 3

RECURSIVE ByteLen(_)
ByteLen(s) == IF s = <<>> THEN 0 ELSE ByteWidth(Head(s)) + ByteLen(Tail(s))

\* str::contains
Contains(s, pat) ==
    \E i \in 1..(Len(s) - Len(pat) + 1) : SubSeq(s, i, i + Len(pat) - 1) = pat

\* str::trim
RECURSIVE TrimStart(_)
TrimStart(s) == IF s # <<>> /\ Head(s) = " " THEN TrimStart(Tail(s)) ELSE s

RECURSIVE TrimEnd(_)
TrimEnd(s) ==
    IF s # <<>> /\ s[Len(s)] = " " THEN TrimEnd(SubSeq(s, 1, Len(s) - 1)) ELSE s

Trim(s) == TrimEnd(TrimStart(s))

\* str::split on a set of delimiter characters: the sequence of parts,
\* empty parts included.
RECURSIVE SplitAcc(_, _, _)
SplitAcc(s, delims, cur) ==
    IF s = <<>> THEN <<cur>>
    ELSE IF Head(s) \in delims
         THEN <<cur>> \o SplitAcc(Tail(s), delims, <<>>)
         ELSE SplitAcc(Tail(s), delims, Append(cur, Head(s)))

Split(s, delims) == SplitAcc(s, delims, <<>>)

(***************************************************************************)
(* ViewStatus and its conversions to and from the stored string            *)
(***************************************************************************)
Active == "Active"
Expired == "Expired"
Promoted == "Promoted"
Rejected == "Rejected"

\* impl From<ViewStatus> for String
StatusToString(st) ==
    CASE st = Active -> "active"
      [] st = Expired -> "expired"
      [] st = Promoted -> "promoted"
      [] st = Rejected -> "rejected"

\* impl From<String> for ViewStatus: an unknown string falls back to Active
StatusFromString(str) ==
    CASE str = "active" -> Active
      [] str = "expired" -> Expired
      [] str = "promoted" -> Promoted
      [] str = "rejected" -> Rejected
      [] OTHER -> Active

can_be_promoted(st) == st = Active

get_status(v) == StatusFromString(v.status)

\* chrono::Duration::num_days: whole days, truncated toward zero
num_days(d) ==
    IF d >= 0 THEN d \div TicksPerDay ELSE -((-d) \div TicksPerDay)

is_expired(v) == v.expires_at < now

(***************************************************************************)
(* Counter-evidence ratio, as the fraction <<numerator, denominator>>      *)
(***************************************************************************)
counter_evidence_ratio(v) ==
    IF v.evidence_count = 0 THEN <<0, 1>>
    ELSE <<v.counter_evidence_count, v.evidence_count>>

\* r >= n/d and r > n/d for a fraction r with positive denominator
FracGE(r, n, d) == r[1] * d >= n * r[2]
FracGT(r, n, d) == r[1] * d > n * r[2]

\* should_be_rejected with >= in place of >
should_be_rejected_ge(v) == FracGE(counter_evidence_ratio(v), 3, 10)

\* CognitiveView::should_be_rejected
should_be_rejected(v) == FracGT(counter_evidence_ratio(v), 3, 10)

(***************************************************************************)
(* The promotion gate                                                      *)
(***************************************************************************)
\* the gate without its status check
gate_no_status_check(v) ==
    /\ ~(v.confidence <= 85)
    /\ ~(v.validation_count < 3)
    /\ ~(num_days(v.expires_at - v.created_at) < 30)
    /\ ~FracGE(counter_evidence_ratio(v), 15, 100)

\* the gate with <= in place of < in the 30-day check
gate_strict_lifetime(v) ==
    /\ ~(v.confidence <= 85)
    /\ ~(v.validation_count < 3)
    /\ ~(num_days(v.expires_at - v.created_at) <= 30)
    /\ can_be_promoted(get_status(v))
    /\ ~FracGE(counter_evidence_ratio(v), 15, 100)

\* CognitiveView::is_ready_for_promotion: each early return negated.  The
\* 30-day check reads expires_at - created_at; the clock is not consulted.
is_ready_for_promotion(v) ==
    /\ ~(v.confidence <= 85)
    /\ ~(v.validation_count < 3)
    /\ ~(num_days(v.expires_at - v.created_at) < 30)
    /\ can_be_promoted(get_status(v))
    /\ ~FracGE(counter_evidence_ratio(v), 15, 100)

(***************************************************************************)
(* Conflict detection between two hypotheses                               *)
(***************************************************************************)
\* (positive, negative) word pairs of has_conflict_with, in source order:
\* like/hate, like/dislike, love/loathe, often/seldom, always/never,
\* daily/never, used-to/hate
contradiction_pairs ==
    << <<<<"xi", "huan">>, <<"tao", "yan">>>>,
       <<<<"xi", "huan">>, <<"bu", "xi", "huan">>>>,
       <<<<"ai">>, <<"hen">>>>,
       <<<<"jing", "chang">>, <<"hen_very", "shao">>>>,
       <<<<"zong", "shi">>, <<"cong", "bu">>>>,
       <<<<"mei", "tian">>, <<"cong", "bu">>>>,
       <<<<"xi_habit", "guan">>, <<"tao", "yan">>>> >>

sentiment_words ==
    { <<"xi", "huan">>, <<"tao", "yan">>, <<"ai">>, <<"hen">>,
      <<"jing", "chang">>, <<"hen_very", "shao">>, <<"zong", "shi">>,
      <<"cong", "bu">> }

\* the delimiters "de", "shi" and "chi" of hypothesis_matches_target
TargetDelims == {"de", "shi", "chi"}

hypothesis_matches_target(self, other) ==
    LET self_parts == Split(self.hypothesis, TargetDelims)
        other_parts == Split(other, TargetDelims)
    IN \E i \in 1..Len(self_parts), j \in 1..Len(other_parts) :
          LET self_clean == Trim(self_parts[i])
              other_clean == Trim(other_parts[j])
          IN /\ ~(self_clean = <<>> \/ other_clean = <<>>)
             /\ ~(self_clean \in sentiment_words \/ other_clean \in sentiment_words)
             /\ \/ self_clean = other_clean
                \/ ByteLen(self_clean) > 1 /\ Contains(other_clean, self_clean)

has_conflict_with(self, other) ==
    IF self.view_id = other.view_id \/ self.user_id # other.user_id
    THEN FALSE
    ELSE \E k \in 1..Len(contradiction_pairs) :
            LET positive == contradiction_pairs[k][1]
                negative == contradiction_pairs[k][2]
                self_has_positive == Contains(self.hypothesis, positive)
                self_has_negative == Contains(self.hypothesis, negative)
                other_has_positive == Contains(other.hypothesis, positive)
                other_has_negative == Contains(other.hypothesis, negative)
            IN /\ \/ self_has_positive /\ other_has_negative
                  \/ self_has_negative /\ other_has_positive
               /\ hypothesis_matches_target(self, other.hypothesis)

(***************************************************************************)
(* Building and changing views                                             *)
(***************************************************************************)
\* A serde_json::Value holding ids: an array of ids, or something else (null)
JsonArray(items) == [tag |-> "array", items |-> items]
JsonNull == [tag |-> "null", items |-> <<>>]

\* NewCognitiveView::new: derived_from is represented by its length
NewCognitiveView_new(user_id, hypothesis, derived_len) ==
    [ user_id |-> user_id,
      hypothesis |-> hypothesis,
      evidence_count |-> derived_len,
      confidence |-> 50,
      validation_count |-> 0,
      status |-> StatusToString(Active),
      created_at |-> now,
      expires_at |-> now + Days(30),
      promoted_to |-> NoId,
      counter_evidence |-> JsonArray(<<>>),
      counter_evidence_count |-> 0 ]

with_confidence(nv, confidence) == [nv EXCEPT !.confidence = confidence]

with_expiration(nv, expires_at) == [nv EXCEPT !.expires_at = expires_at]

\* ViewGenerator::calculate_expiration with default_expiration_days = 30;
\* (base_days as f64 * confidence) as i64 truncates
default_expiration_days == 30

Max(a, b) == IF a >= b THEN a ELSE b
Min(a, b) == IF a <= b THEN a ELSE b

calculate_expiration(pattern_confidence) ==
    LET adjusted_days == (default_expiration_days * pattern_confidence) \div 100
        clamped_days == Min(Max(adjusted_days, 15), 60)
    IN now + Days(clamped_days)

\* ViewGenerator::generate_view.  calculate_confidence (logarithmic boosts)
\* is not computed: its result is the input `confidence`, which the caller
\* draws from the values at or above min_confidence_threshold.
min_confidence_threshold == 50

generate_view(user_id, hypothesis, pattern_confidence, confidence, evidence) ==
    with_expiration(
        with_confidence(NewCognitiveView_new(user_id, hypothesis, evidence), confidence),
        calculate_expiration(pattern_confidence))

\* CognitiveView::add_counter_evidence: serde_json::from_value::<Vec<Uuid>>
\* succeeds exactly on an array of ids
add_counter_evidence_count_kept(v, event_id) ==
    IF v.counter_evidence.tag = "array"
    THEN [v EXCEPT !.counter_evidence = JsonArray(Append(@.items, event_id))]
    ELSE [v EXCEPT !.counter_evidence = JsonArray(<<event_id>>),
                   !.counter_evidence_count = 1]

add_counter_evidence(v, event_id) ==
    IF v.counter_evidence.tag = "array"
    THEN [v EXCEPT !.counter_evidence = JsonArray(Append(@.items, event_id)),
                   !.counter_evidence_count = @ + 1]
    ELSE [v EXCEPT !.counter_evidence = JsonArray(<<event_id>>),
                   !.counter_evidence_count = 1]

(***************************************************************************)
(* Stable concepts: the row constructors of cognitive.rs                   *)
(***************************************************************************)
NoTime == -1

\* The rows keep the fields the versioning reads; `source` is abbreviated to
\* the kind of constructor that wrote it.

\* from_view counting versions from 0
from_view_version_zero(user_id, canonical_name, promoted_from, promotion_confidence) ==
    [ user_id |-> user_id,
      canonical_name |-> canonical_name,
      version |-> 0,
      parent_concept_id |-> NoId,
      is_deprecated |-> FALSE,
      promoted_from |-> promoted_from,
      promotion_confidence |-> promotion_confidence,
      created_at |-> now,
      deprecated_at |-> NoTime,
      access_count |-> 0,
      source |-> "promotion_gate" ]

\* NewStableConcept::from_view
from_view(user_id, canonical_name, promoted_from, promotion_confidence) ==
    [ user_id |-> user_id,
      canonical_name |-> canonical_name,
      version |-> 1,
      parent_concept_id |-> NoId,
      is_deprecated |-> FALSE,
      promoted_from |-> promoted_from,
      promotion_confidence |-> promotion_confidence,
      created_at |-> now,
      deprecated_at |-> NoTime,
      access_count |-> 0,
      source |-> "promotion_gate" ]

\* create_new_version without the version increment
create_new_version_same(self) ==
    [ user_id |-> self.user_id,
      canonical_name |-> self.canonical_name,
      version |-> self.version,
      parent_concept_id |-> self.concept_id,
      is_deprecated |-> FALSE,
      promoted_from |-> self.promoted_from,
      promotion_confidence |-> self.promotion_confidence,
      created_at |-> now,
      deprecated_at |-> NoTime,
      access_count |-> 0,
      source |-> "new_version" ]

\* StableConcept::create_new_version
create_new_version(self) ==
    [ user_id |-> self.user_id,
      canonical_name |-> self.canonical_name,
      version |-> self.version + 1,
      parent_concept_id |-> self.concept_id,
      is_deprecated |-> FALSE,
      promoted_from |-> self.promoted_from,
      promotion_confidence |-> self.promotion_confidence,
      created_at |-> now,
      deprecated_at |-> NoTime,
      access_count |-> 0,
      source |-> "new_version" ]

\* deprecate leaving is_deprecated as it was
deprecate_keeps_active(self) ==
    [ user_id |-> self.user_id,
      canonical_name |-> self.canonical_name,
      version |-> self.version,
      parent_concept_id |-> self.parent_concept_id,
      is_deprecated |-> self.is_deprecated,
      promoted_from |-> self.promoted_from,
      promotion_confidence |-> self.promotion_confidence,
      created_at |-> self.created_at,
      deprecated_at |-> now,
      access_count |-> self.access_count,
      source |-> self.source ]

\* StableConcept::deprecate: the fields of self, marked deprecated
deprecate(self) ==
    [ user_id |-> self.user_id,
      canonical_name |-> self.canonical_name,
      version |-> self.version,
      parent_concept_id |-> self.parent_concept_id,
      is_deprecated |-> TRUE,
      promoted_from |-> self.promoted_from,
      promotion_confidence |-> self.promotion_confidence,
      created_at |-> self.created_at,
      deprecated_at |-> now,
      access_count |-> self.access_count,
      source |-> self.source ]

\* StableConcept::create_rollback_version
create_rollback_version(self, parent_concept) ==
    [ user_id |-> self.user_id,
      canonical_name |-> self.canonical_name,
      version |-> parent_concept.version + 1,
      parent_concept_id |-> parent_concept.concept_id,
      is_deprecated |-> FALSE,
      promoted_from |-> parent_concept.promoted_from,
      promotion_confidence |-> parent_concept.promotion_confidence,
      created_at |-> now,
      deprecated_at |-> NoTime,
      access_count |-> 0,
      source |-> "rollback" ]

\* StableConcept::increment_access
increment_access(self) == [self EXCEPT !.access_count = @ + 1]

is_latest_version(self) == ~self.is_deprecated

can_rollback(self) == self.parent_concept_id # NoId

(***************************************************************************)
(* The stores.  views and concepts map the ids handed out so far to rows;  *)
(* an insert gives the row the next id.                                    *)
(***************************************************************************)
ViewIds == DOMAIN views
ConceptIds == DOMAIN concepts

NextViewId == Cardinality(ViewIds) + 1
NextConceptId == Cardinality(ConceptIds) + 1

InsertView(nv) ==
    views' = views @@ (NextViewId :> ([view_id |-> NextViewId] @@ nv))

WithConceptId(nc, id) == [concept_id |-> id] @@ nc

\* rows of one (owner, canonical-name)
ConceptsNamed(user_id, name) ==
    {c \in ConceptIds : concepts[c].user_id = user_id /\ concepts[c].canonical_name = name}

CurrentNamed(user_id, name) ==
    {c \in ConceptsNamed(user_id, name) : is_latest_version(concepts[c])}

\* the row inserted last for the name: the previous current version
LatestNamed(user_id, name) ==
    CHOOSE c \in ConceptsNamed(user_id, name) :
        \A d \in ConceptsNamed(user_id, name) : d <= c

\* insert `nc` and, in the same transaction, flip row `old` to its
\* deprecated form (old = NoId: nothing to flip)
SupersedeTx(nc, old) ==
    LET id == NextConceptId
        flipped == IF old = NoId THEN concepts
                   ELSE [concepts EXCEPT ![old] = WithConceptId(deprecate(@), old)]
    IN concepts' = flipped @@ (id :> WithConceptId(nc, id))

(***************************************************************************)
(* Actions on views                                                        *)
(***************************************************************************)
CreateView(slots, user_id, hypothesis, derived_len) ==
    /\ NextViewId \in slots
    /\ InsertView(NewCognitiveView_new(user_id, hypothesis, derived_len))
    /\ UNCHANGED <<now, concepts, runtimeVars>>

GenerateView(slots, user_id, hypothesis, pattern_confidence, confidence, evidence) ==
    /\ NextViewId \in slots
    /\ ~(confidence < min_confidence_threshold)
    /\ InsertView(generate_view(user_id, hypothesis, pattern_confidence, confidence, evidence))
    /\ UNCHANGED <<now, concepts, runtimeVars>>

\* a supporting observation matures an Active view
Reinforce(v, confidence) ==
    /\ v \in ViewIds
    /\ get_status(views[v]) = Active
    /\ views[v].validation_count < MaxValidation
    /\ views' = [views EXCEPT ![v].validation_count = @ + 1,
                              ![v].confidence = confidence]
    /\ UNCHANGED <<now, concepts, runtimeVars>>

AddCounterEvidence(v, event_id) ==
    /\ v \in ViewIds
    /\ views[v].counter_evidence_count < MaxCounter
    /\ views' = [views EXCEPT ![v] = add_counter_evidence(@, event_id)]
    /\ UNCHANGED <<now, concepts, runtimeVars>>

Tick(t) ==
    /\ t \in TimePoints
    /\ t > now
    /\ now' = t
    /\ UNCHANGED <<views, concepts, runtimeVars>>

(***************************************************************************)
(* The periodic sweep over the views                                       *)
(***************************************************************************)
SweepExpire(v) ==
    /\ v \in ViewIds
    /\ get_status(views[v]) = Active
    /\ is_expired(views[v])
    /\ views' = [views EXCEPT ![v].status = StatusToString(Expired)]
    /\ UNCHANGED <<now, concepts, runtimeVars>>

SweepReject(v) ==
    /\ v \in ViewIds
    /\ get_status(views[v]) = Active
    /\ should_be_rejected(views[v])
    /\ views' = [views EXCEPT ![v].status = StatusToString(Rejected)]
    /\ UNCHANGED <<now, concepts, runtimeVars>>

\* promotion: one transaction inserting the concept row (version 1, or the
\* next version of the name's previous current version, which is flipped to
\* deprecated), then the view's back-pointer
SweepPromote(v, canonical_name) ==
    /\ v \in ViewIds
    /\ is_ready_for_promotion(views[v])
    /\ NextConceptId <= MaxConcepts
    /\ LET view == views[v]
           named == ConceptsNamed(view.user_id, canonical_name)
           prev == IF named = {} THEN NoId ELSE LatestNamed(view.user_id, canonical_name)
           nc == IF prev = NoId
                 THEN from_view(view.user_id, canonical_name, v, view.confidence)
                 ELSE create_new_version(concepts[prev])
           old == IF prev # NoId /\ is_latest_version(concepts[prev]) THEN prev ELSE NoId
       IN /\ SupersedeTx(nc, old)
          /\ views' = [views EXCEPT ![v].status = StatusToString(Promoted),
                                    ![v].promoted_to = NextConceptId]
    /\ UNCHANGED <<now, runtimeVars>>

(***************************************************************************)
(* Actions on concepts                                                     *)
(***************************************************************************)
NewVersion(c) ==
    /\ c \in ConceptIds
    /\ is_latest_version(concepts[c])
    /\ NextConceptId <= MaxConcepts
    /\ SupersedeTx(create_new_version(concepts[c]), c)
    /\ UNCHANGED <<now, views, runtimeVars>>

Rollback(c) ==
    /\ c \in ConceptIds
    /\ is_latest_version(concepts[c])
    /\ can_rollback(concepts[c])
    /\ NextConceptId <= MaxConcepts
    /\ SupersedeTx(create_rollback_version(concepts[c], concepts[concepts[c].parent_concept_id]), c)
    /\ UNCHANGED <<now, views, runtimeVars>>

Deprecate(c) ==
    /\ c \in ConceptIds
    /\ concepts' = [concepts EXCEPT ![c] = WithConceptId(deprecate(@), c)]
    /\ UNCHANGED <<now, views, runtimeVars>>

\* reads recorded so far, over all rows
RECURSIVE SumAccess(_)
SumAccess(ids) ==
    IF ids = {} THEN 0
    ELSE LET c == CHOOSE x \in ids : TRUE
         IN concepts[c].access_count + SumAccess(ids \ {c})

Access(c) ==
    /\ c \in ConceptIds
    /\ SumAccess(ConceptIds) < MaxAccess
    /\ concepts' = [concepts EXCEPT ![c] = increment_access(@)]
    /\ UNCHANGED <<now, views, runtimeVars>>

(***************************************************************************)
(* The plugin runtime and the scheduler as constructed: no plugin, no      *)
(* spec, every caller idle, an empty event store, a closed breaker.        *)
(***************************************************************************)
\* the tasks that call into the manager and the router
Callers == {"t1", "t2"}

NoPlugin == "none"
NoDeadline == 0

\* a caller's record: the operation it is in, where it stands in it and
\* what it was handed back
NoCall ==
    [ op |-> "none", pc |-> "idle", plugin |-> NoPlugin, grant |-> "none",
      handler |-> "none", will |-> "none", deadline |-> NoDeadline,
      result |-> "none", input |-> <<>>, word |-> <<>>, query |-> <<>>,
      mem_op |-> "none", mem_result |-> "none",
      crashed |-> {}, processed |-> {}, recorded |-> {}, backoff |-> 0 ]

\* CircuitBreaker::new at instant t
CircuitBreaker_new(cooldown_sec, t) ==
    [ is_open |-> FALSE, last_check |-> t, cooldown_sec |-> cooldown_sec ]

\* ResourceAwareScheduler::new
breaker_cooldown_sec == 60

NoDecision == [ task |-> "none", result |-> "none" ]

\* /proc/meminfo as first read: MemTotal and MemAvailable, in MB
total_mb == 100

SchedulerInit ==
    /\ usage = [total_mb |-> total_mb, available_mb |-> total_mb]
    /\ sys_time = 0
    /\ circuit_breaker = CircuitBreaker_new(breaker_cooldown_sec, 0)
    /\ decision = NoDecision

CallersIdle ==
    /\ call = [t \in Callers |-> NoCall]
    /\ events = <<>>

\* a caller's storage call: the operation, its position, what it read and
\* what it returned
NoJob ==
    [ op |-> "none", pc |-> "idle", user_id |-> "none", canonical_name |-> "none",
      entity |-> NoId, occurrence_count |-> 0,
      memory_id |-> NoId, text |-> "none", result |-> "none", calls |-> 0 ]

\* empty tables, an empty embedding cache, no storage call in flight
StoreInit ==
    /\ entities = <<>>
    /\ raw_memories = <<>>
    /\ event_memories = <<>>
    /\ cache = <<>>
    /\ job = [t \in Callers |-> NoJob]

RuntimeInit ==
    /\ plugins = <<>>
    /\ plugin_specs = <<>>
    /\ CallersIdle
    /\ SchedulerInit
    /\ StoreInit

(***************************************************************************)
(* Spec: the life of one view, from creation to its terminal status        *)
(***************************************************************************)
LifeSlots == {1}

Init ==
    /\ now = 0
    /\ views = <<>>
    /\ concepts = <<>>
    /\ RuntimeInit

Next ==
    \/ \E n \in EvidenceInputs : CreateView(LifeSlots, "u1", HypLikeFruit, n)
    \/ \E pc \in PatternConfidences, cf \in ConfidenceInputs, n \in EvidenceInputs :
          GenerateView(LifeSlots, "u1", HypLikeFruit, pc, cf, n)
    \/ \E v \in ViewIds, cf \in ConfidenceInputs : Reinforce(v, cf)
    \/ \E v \in ViewIds, e \in EventIds : AddCounterEvidence(v, e)
    \/ \E t \in TimePoints : Tick(t)
    \/ \E v \in ViewIds : SweepExpire(v)
    \/ \E v \in ViewIds : SweepReject(v)
    \/ \E v \in ViewIds, name \in CanonicalNames : SweepPromote(v, name)

Spec == Init /\ [][Next]_vars

(***************************************************************************)
(* Properties of the view life cycle                                       *)
(***************************************************************************)
TerminalStatuses == {Expired, Promoted, Rejected}

Age(v) == now - v.created_at

\* counter_evidence_count / max(evidence_count, 1) as a fraction
StatedRatio(v) == <<v.counter_evidence_count, Max(v.evidence_count, 1)>>

BecomesPromoted(v) ==
    /\ get_status(views[v]) # Promoted
    /\ get_status(views'[v]) = Promoted

\* C1: whenever a view becomes Promoted, at that moment its confidence is
\* above 0.85, its validation_count is at least 3, its age (now minus
\* created_at) is at least 30 days and counter_evidence_count /
\* max(evidence_count, 1) is below 0.15.
C1_PromotionMeetsThresholds ==
    [][\A v \in ViewIds :
         BecomesPromoted(v) =>
            /\ views[v].confidence > 85
            /\ views[v].validation_count >= 3
            /\ Age(views[v]) >= Days(30)
            /\ ~FracGE(StatedRatio(views[v]), 15, 100)]_vars

\* C2: once a view's status is Promoted, Expired or Rejected, no step
\* changes any of its fields other than promoted_to.
C2_TerminalViewFrozen ==
    [][\A v \in ViewIds :
         get_status(views[v]) \in TerminalStatuses =>
            [views'[v] EXCEPT !.promoted_to = views[v].promoted_to] = views[v]]_vars

\* C3: a view's status changes only from Active to Expired, Rejected or
\* Promoted, never out of one of those three, and the promotion gate is
\* false for every view whose status is not Active.
C3_StatusMachine ==
    [][\A v \in ViewIds :
         /\ get_status(views[v]) # Active => ~is_ready_for_promotion(views[v])
         /\ get_status(views'[v]) # get_status(views[v]) =>
               /\ get_status(views[v]) = Active
               /\ get_status(views'[v]) \in TerminalStatuses]_vars

\* a view that left Active while meeting every numeric threshold of the gate
C3_Witness ==
    \E v \in ViewIds :
        /\ get_status(views[v]) \in TerminalStatuses
        /\ views[v].confidence > 85
        /\ views[v].validation_count >= 3
        /\ num_days(views[v].expires_at - views[v].created_at) >= 30
        /\ views[v].counter_evidence_count = 0

ScenarioView(w) ==
    /\ w.expires_at = w.created_at + Days(30)
    /\ Age(w) = Days(32)
    /\ w.confidence = 90
    /\ w.validation_count = 5
    /\ w.counter_evidence_count = 0

C6_BoundaryAtThirtyDays ==
    \A v \in ViewIds :
        Age(views[v]) = Days(30) =>
            /\ views[v].confidence = 85 => ~is_ready_for_promotion(views[v])
            /\ ( /\ views[v].confidence > 85
                 /\ views[v].validation_count >= 3
                 /\ get_status(views[v]) = Active
                 /\ ~FracGE(StatedRatio(views[v]), 15, 100) )
               => is_ready_for_promotion(views[v])

\* C7: every Active view whose counter_evidence_count / max(evidence_count,
\* 1) is at least 0.30, the value 0.30 included, is to be rejected, and the
\* gate is false for it.
C7_RejectAtThirtyPercent ==
    \A v \in ViewIds :
        (get_status(views[v]) = Active /\ FracGE(StatedRatio(views[v]), 3, 10)) =>
            /\ should_be_rejected(views[v])
            /\ ~is_ready_for_promotion(views[v])

\* C7 as amended: an Active view whose ratio counter_evidence_count /
\* evidence_count (0 when evidence_count is 0) is strictly above 0.30 is
\* rejected by the sweep without further input, fails the gate and is never
\* promoted, and a view is rejected only then; at a ratio of exactly 0.30
\* the view is not rejected.
C7_RejectAboveThirtyPercent ==
    [][\A v \in ViewIds :
         LET w == views[v]
             above == w.evidence_count > 0
                        /\ 10 * w.counter_evidence_count > 3 * w.evidence_count
         IN /\ (get_status(w) = Active /\ above) =>
                  /\ should_be_rejected(w)
                  /\ ENABLED SweepReject(v)
                  /\ ~is_ready_for_promotion(w)
                  /\ get_status(views'[v]) # Promoted
                  /\ concepts' = concepts
            /\ (get_status(w) = Active /\ ~above) =>
                  /\ ~should_be_rejected(w)
                  /\ get_status(views'[v]) # Rejected]_vars

\* 20 supporting and 7 counter events: rejected, and no concept row exists
C7_Witness ==
    \E v \in ViewIds :
        /\ views[v].evidence_count = 20
        /\ views[v].counter_evidence_count = 7
        /\ get_status(views[v]) = Rejected
        /\ concepts = <<>>

\* C28: a view whose expires_at has already passed is never promoted: no
\* view is both past its expiry and accepted by the promotion gate, and no
\* view past its expiry becomes Promoted.
C28_ExpiredNotPromotable ==
    [][\A v \in ViewIds :
         is_expired(views[v]) =>
            /\ ~is_ready_for_promotion(views[v])
            /\ ~BecomesPromoted(v)]_vars

(***************************************************************************)
(* SpecConflict: two views of possibly conflicting hypotheses              *)
(***************************************************************************)
ConflictSlots == {1, 2}
NextConflict ==
    \/ \E u \in Users, h \in Hypotheses : CreateView(ConflictSlots, u, h, 20)
    \/ \E v \in ViewIds : Reinforce(v, 90)
    \/ \E v \in ViewIds : SweepPromote(v, "likes_fruit")

SpecConflict == Init /\ [][NextConflict]_vars

\* C4: while an Active view of the same owner holds a conflicting
\* hypothesis, the gate is false for a view even if it meets every numeric
\* threshold, so neither of two conflicting views is promoted.
C4_ConflictBlocksPromotion ==
    \A v, w \in ViewIds :
        (get_status(views[w]) = Active /\ has_conflict_with(views[v], views[w]))
            => ~is_ready_for_promotion(views[v])

(***************************************************************************)
(* SpecConcepts: promotions onto shared names, new versions, rollbacks,    *)
(* deprecations and reads of the concept store.  It starts from three      *)
(* matured views: created with 20 supporting events and reinforced three   *)
(* times to confidence 0.9.                                                *)
(***************************************************************************)
MaturedView(id, user_id, hypothesis) ==
    [ [view_id |-> id] @@ NewCognitiveView_new(user_id, hypothesis, 20)
        EXCEPT !.confidence = 90, !.validation_count = 3 ]

InitConcepts ==
    /\ now = 0
    /\ views = <<MaturedView(1, "u1", HypLikeFruit),
                 MaturedView(2, "u1", HypHateVeg),
                 MaturedView(3, "u2", HypLikeFruit)>>
    /\ concepts = <<>>
    /\ RuntimeInit

NextConcepts ==
    \/ \E v \in ViewIds, name \in CanonicalNames : SweepPromote(v, name)
    \/ \E c \in ConceptIds : NewVersion(c)
    \/ \E c \in ConceptIds : Rollback(c)
    \/ \E c \in ConceptIds : Deprecate(c)
    \/ \E c \in ConceptIds : Access(c)

SpecConcepts == InitConcepts /\ [][NextConcepts]_vars

C9_VersionAboveParent ==
    \A c \in ConceptIds :
        concepts[c].parent_concept_id # NoId =>
            /\ concepts[c].parent_concept_id \in ConceptIds
            /\ concepts[c].version > concepts[concepts[c].parent_concept_id].version

\* rows with a parent made by a new version, a rollback and a deprecation
C9_Witness ==
    \E c, d, e \in ConceptIds :
        /\ concepts[c].parent_concept_id # NoId /\ concepts[c].source = "new_version"
        /\ concepts[c].is_deprecated /\ concepts[c].deprecated_at # NoTime
        /\ concepts[d].parent_concept_id # NoId /\ concepts[d].source = "rollback"
        /\ concepts[e].source = "promotion_gate"

C11_DeprecatedRowFrozen ==
    [][\A c \in ConceptIds :
         concepts[c].is_deprecated => concepts'[c] = concepts[c]]_vars

\* C30: within one (owner, canonical-name) history no two rows carry the
\* same version number; in particular the row a rollback creates has a
\* version greater than every version that exists for that name.
C30_VersionsUniquePerName ==
    \A c, d \in ConceptIds :
        (/\ c # d
         /\ concepts[c].user_id = concepts[d].user_id
         /\ concepts[c].canonical_name = concepts[d].canonical_name)
            => concepts[c].version # concepts[d].version

(***************************************************************************)
(* SpecViews: the ways a view is constructed, and counter-evidence added   *)
(* to views.  The store starts with one row read back with a               *)
(* counter_evidence column that does not parse as a list of ids (JSON      *)
(* null, no counter-evidence recorded); the second row is constructed by   *)
(* NewCognitiveView::new, by new followed by with_expiration, or by the    *)
(* view generator.                                                         *)
(***************************************************************************)
StoredView ==
    [ [view_id |-> 1] @@ NewCognitiveView_new("u1", HypLikeFruit, 20)
        EXCEPT !.counter_evidence = JsonNull ]

\* NewCognitiveView::new(..).with_expiration(expires_at)
CreateViewWithExpiration(slots, user_id, hypothesis, derived_len, expires_at) ==
    /\ NextViewId \in slots
    /\ InsertView(with_expiration(NewCognitiveView_new(user_id, hypothesis, derived_len),
                                  expires_at))
    /\ UNCHANGED <<now, concepts, runtimeVars>>

ViewSlots == {2}

InitViews ==
    /\ now = 0
    /\ views = <<StoredView>>
    /\ concepts = <<>>
    /\ RuntimeInit

NextViews ==
    \/ \E n \in EvidenceInputs : CreateView(ViewSlots, "u1", HypHateVeg, n)
    \/ \E n \in EvidenceInputs, e \in TimePoints :
          CreateViewWithExpiration(ViewSlots, "u1", HypHateVeg, n, e)
    \/ \E pc \in PatternConfidences, cf \in ConfidenceInputs, n \in EvidenceInputs :
          GenerateView(ViewSlots, "u1", HypHateVeg, pc, cf, n)
    \/ \E v \in ViewIds, e \in EventIds : AddCounterEvidence(v, e)
    \/ \E t \in TimePoints : Tick(t)

SpecViews == InitViews /\ [][NextViews]_vars

\* the number of ids in a stored counter-evidence list; a value that is not
\* a list holds none
NumIds(json) == IF json.tag = "array" THEN Len(json.items) ELSE 0

\* C26: for every view counter_evidence_count equals the number of ids in
\* its counter-evidence id list, initially and after any sequence of
\* add-counter-evidence operations, including when the stored id list could
\* not be parsed.
C26_CountMatchesIdList ==
    \A v \in ViewIds :
        views[v].counter_evidence_count = NumIds(views[v].counter_evidence)

\* counter-evidence was added twice to the row whose stored list did not
\* parse, and once to a constructed view
C26_Witness ==
    /\ views[1].counter_evidence = JsonArray(<<"e1", "e1">>)
    /\ views[1].counter_evidence_count = 2
    /\ 2 \in ViewIds
    /\ views[2].counter_evidence = JsonArray(<<"e1">>)
    /\ views[2].counter_evidence_count = 1

\* C27: for every view expires_at is strictly later than created_at,
\* whichever way the view was constructed: default constructor, explicit
\* expiration override, or view generator.
C27_ExpiresAfterCreated ==
    \A v \in ViewIds : views[v].expires_at > views[v].created_at

(***************************************************************************)
(* MemoryPermission (src/rust/src/agents.rs)                               *)
(***************************************************************************)
ReadOnly == "ReadOnly"
ReadWriteDerived == "ReadWriteDerived"
ReadWriteEvents == "ReadWriteEvents"

MemoryPermissions == {ReadOnly, ReadWriteDerived, ReadWriteEvents}

as_i32(permission) ==
    CASE permission = ReadOnly -> 1
      [] permission = ReadWriteDerived -> 2
      [] permission = ReadWriteEvents -> 3

can_modify_views(permission) == permission \in {ReadWriteDerived, ReadWriteEvents}

can_create_events(permission) == permission \in {ReadWriteEvents}

can_read_entities(permission) == permission \in {ReadWriteDerived, ReadWriteEvents}

(***************************************************************************)
(* The plugin manager (src/rust/src/plugin.rs).  A handler is code of the  *)
(* plugin: an invocation of it returns Ok, returns an error or never       *)
(* completes.  A caller awaiting a handler stands at pc = "await", with    *)
(* the deadline the code wrapped the invocation in, if any.                *)
(***************************************************************************)
PluginIds == {"decision", "deeptalk"}

\* the metadata() of the plugins offered: deeptalk is the built-in default
PluginMetadata(id) ==
    [ id |-> id,
      required_permission |-> IF id = "decision" THEN ReadWriteDerived ELSE ReadOnly,
      is_builtin |-> (id = "deeptalk") ]

HandlerBehaviours == {"ok", "err", "never"}

\* PluginTimeoutConfig::default, in seconds
cleanup_timeout == 10

\* PluginManager::new
max_restarts == 3
restart_backoff == 5

PluginSpec_from_metadata(metadata) ==
    [ id |-> metadata.id,
      required_permission |-> as_i32(metadata.required_permission),
      is_builtin |-> metadata.is_builtin ]

IsolatedPlugin_new(permission, cap) ==
    [ permission |-> permission, is_healthy |-> TRUE,
      restart_count |-> 0, max_restarts |-> cap ]

InstalledIds == DOMAIN plugins

\* uninstall holds the write lock of the plugin map while it awaits cleanup
WriteLocked == \E t \in Callers : call[t].op = "uninstall" /\ call[t].pc = "await"

CanCall(t) == call[t].pc \in {"idle", "done"}

Returned(c, result) == [c EXCEPT !.pc = "done", !.result = result]

Awaiting(c, handler, will, deadline) ==
    [c EXCEPT !.pc = "await", !.handler = handler, !.will = will, !.deadline = deadline]

\* the permission check of install
install_permission_denied_le(permission, required) ==
    as_i32(permission) <= as_i32(required)

install_permission_denied(permission, required) ==
    as_i32(permission) < as_i32(required)

\* PluginManager::install up to its await of plugin.initialize()
Install(t, p, permission, will) ==
    /\ CanCall(t)
    /\ LET metadata == PluginMetadata(p)
           c == [NoCall EXCEPT !.op = "install", !.plugin = p, !.grant = permission]
       IN IF install_permission_denied(permission, metadata.required_permission)
          THEN /\ call' = [call EXCEPT ![t] = Returned(c, "PermissionDenied")]
               /\ UNCHANGED plugin_specs
          ELSE /\ plugin_specs' = (p :> PluginSpec_from_metadata(metadata)) @@ plugin_specs
               /\ call' = [call EXCEPT ![t] = Awaiting(c, "initialize", will, NoDeadline)]
    /\ UNCHANGED <<plugins, events, cogVars, schedVars, storeVars>>

\* install from the return of plugin.initialize() on
InitializeReturns(t) ==
    /\ call[t].op = "install" /\ call[t].pc = "await"
    /\ call[t].will \in {"ok", "err"}
    /\ IF call[t].will = "err"
       THEN /\ call' = [call EXCEPT ![t] = Returned(@, "Plugin")]
            /\ UNCHANGED plugins
       ELSE /\ ~WriteLocked
            /\ plugins' = (call[t].plugin :> IsolatedPlugin_new(call[t].grant, max_restarts))
                              @@ plugins
            /\ call' = [call EXCEPT ![t] = Returned(@, "Ok")]
    /\ UNCHANGED <<plugin_specs, events, cogVars, schedVars, storeVars>>

\* PluginManager::uninstall up to its await of plugin.cleanup()
Uninstall(t, p, will) ==
    /\ CanCall(t)
    /\ ~WriteLocked
    /\ LET c == [NoCall EXCEPT !.op = "uninstall", !.plugin = p]
       IN IF p \notin InstalledIds
          THEN /\ call' = [call EXCEPT ![t] = Returned(c, "PluginNotFound")]
               /\ UNCHANGED plugins
          ELSE IF PluginMetadata(p).is_builtin
          THEN /\ call' = [call EXCEPT ![t] = Returned(c, "Plugin")]
               /\ UNCHANGED plugins
          ELSE /\ plugins' = [q \in InstalledIds \ {p} |-> plugins[q]]
               /\ call' = [call EXCEPT ![t] = Awaiting(c, "cleanup", will, cleanup_timeout)]
    /\ UNCHANGED <<plugin_specs, events, cogVars, schedVars, storeVars>>

\* uninstall from the return of plugin.cleanup() on
CleanupReturns(t) ==
    /\ call[t].op = "uninstall" /\ call[t].pc = "await"
    /\ call[t].will \in {"ok", "err"}
    /\ call' = [call EXCEPT ![t] =
                   Returned(@, IF call[t].will = "ok" THEN "Ok" ELSE "HandlerError")]
    /\ UNCHANGED <<plugins, plugin_specs, events, cogVars, schedVars, storeVars>>

\* tokio::time::timeout expiring on a handler that has not completed
DeadlineExpires(t) ==
    /\ call[t].pc = "await"
    /\ call[t].deadline # NoDeadline
    /\ call[t].will = "never"
    /\ call' = [call EXCEPT ![t] = Returned(@, "PluginTimeout")]
    /\ UNCHANGED <<plugins, plugin_specs, events, cogVars, schedVars, storeVars>>

(***************************************************************************)
(* SpecInstall: two callers installing and uninstalling the plugins        *)
(***************************************************************************)
NextInstall ==
    \/ \E t \in Callers, p \in PluginIds, g \in MemoryPermissions, w \in HandlerBehaviours :
          Install(t, p, g, w)
    \/ \E t \in Callers : InitializeReturns(t)
    \/ \E t \in Callers, p \in PluginIds, w \in HandlerBehaviours : Uninstall(t, p, w)
    \/ \E t \in Callers : CleanupReturns(t)
    \/ \E t \in Callers : DeadlineExpires(t)

SpecInstall == Init /\ [][NextInstall]_vars

\* a step in which caller t is handed the result of an install
InstallReturns(t) ==
    /\ call'[t] # call[t]
    /\ call'[t].op = "install"
    /\ call'[t].pc = "done"

Granted(c) == as_i32(c.grant) >= as_i32(PluginMetadata(c.plugin).required_permission)

\* C12: an install is accepted when the granted permission level is greater
\* than or equal to the plugin's required level, and rejected otherwise.
C12_InstallAcceptedIffGranted ==
    [][\A t \in Callers :
         InstallReturns(t) => (call'[t].result = "Ok" <=> Granted(call'[t]))]_vars

\* C12 as amended: an install is rejected with a permission error, leaving
\* both maps of the manager as they were, exactly when the grant is below
\* the required level; with a grant at or above it the install is accepted
\* exactly when the plugin's initialize succeeds, and the plugin is then
\* stored healthy with the granted level; when initialize fails the install
\* is rejected with a plugin error.
C12_InstallPermissionCheck ==
    [][\A t \in Callers :
         InstallReturns(t) =>
            LET c == call'[t]
            IN /\ c.result = "PermissionDenied" <=> ~Granted(c)
               /\ c.result = "PermissionDenied" =>
                     plugins' = plugins /\ plugin_specs' = plugin_specs
               /\ c.result = "Ok" <=> (Granted(c) /\ call[t].will = "ok")
               /\ c.result = "Ok" =>
                     /\ c.plugin \in DOMAIN plugins'
                     /\ plugins'[c.plugin].permission = c.grant
                     /\ plugins'[c.plugin].is_healthy
               /\ c.result = "Plugin" <=> (Granted(c) /\ call[t].will = "err")]_vars

\* one install accepted at exactly the required level, one rejected for a
\* grant one level below it
C12_Witness ==
    \E t, u \in Callers :
        /\ call[t].op = "install" /\ call[t].result = "Ok"
        /\ call[t].grant = PluginMetadata(call[t].plugin).required_permission
        /\ call[u].op = "install" /\ call[u].result = "PermissionDenied"
        /\ as_i32(call[u].grant) + 1 = as_i32(PluginMetadata(call[u].plugin).required_permission)
        /\ call[t].plugin \in InstalledIds

\* C29: an install call that returns an error (permission rejected or
\* initialize failed) leaves the manager unchanged: no step of such a call
\* changes the plugin map or the plugin-spec registry, so a plugin id absent
\* from them before the call is absent from both afterwards.
C29_FailedInstallLeavesManagerUnchanged ==
    [][\A t \in Callers :
         (/\ call'[t] # call[t]
          /\ call'[t].op = "install"
          /\ \/ call'[t].result \in {"PermissionDenied", "Plugin"}
             \/ call'[t].pc = "await" /\ call'[t].will = "err")
            => plugins' = plugins /\ plugin_specs' = plugin_specs]_vars

\* C15: every invocation of a plugin handler is bounded by a deadline: a
\* caller awaiting a handler that never completes is released by the expiry
\* of its deadline, so install, uninstall and route return to their caller.
C15_HandlerCallsBounded ==
    \A t \in Callers :
        (call[t].pc = "await" /\ call[t].will = "never") => ENABLED DeadlineExpires(t)

(***************************************************************************)
(* The command router (src/rust/src/plugin.rs).  An input is a sequence of *)
(* characters: "@", the space, the word character "d" and the punctuation  *)
(* mark "?".                                                               *)
(***************************************************************************)
MaxInputLen == 5

InputChars == {"@", " ", "d", "?"}

RECURSIVE SeqsUpTo(_, _)
SeqsUpTo(S, n) ==
    IF n = 0 THEN {<<>>}
    ELSE LET shorter == SeqsUpTo(S, n - 1)
         IN shorter \cup {Append(s, c) : s \in {x \in shorter : Len(x) = n - 1}, c \in S}

Inputs == SeqsUpTo(InputChars, MaxInputLen)

\* the regex classes \w and \s
WordChars == {"d"}
SpaceChars == {" "}
IsWord(c) == c \in WordChars
IsSpace(c) == c \in SpaceChars

\* length of the longest run of characters of a class that starts at s[i]
RunFrom(s, i, class) ==
    CHOOSE n \in 0..Len(s) :
        /\ i + n - 1 <= Len(s)
        /\ \A k \in i..(i + n - 1) : s[k] \in class
        /\ (i + n > Len(s) \/ s[i + n] \notin class)

\* @(\w+)\s+(.+) matched with its "@" at s[i]: the word is the whole run of
\* word characters, \s+ the run of spaces less one when nothing else is left
\* for (.+)
MatchAt(s, i) ==
    LET w == RunFrom(s, i + 1, WordChars)
        sp == RunFrom(s, i + 1 + w, SpaceChars)
    IN /\ s[i] = "@"
       /\ w >= 1
       /\ sp >= 1
       /\ (i + w + sp < Len(s) \/ sp >= 2)

\* Regex::captures: the leftmost match anywhere in the input
captures(s) ==
    LET starts == {i \in 1..Len(s) : MatchAt(s, i)}
    IN IF starts = {} THEN [matched |-> FALSE, plugin |-> <<>>, query |-> <<>>]
       ELSE LET i == CHOOSE x \in starts : \A y \in starts : x <= y
                w == RunFrom(s, i + 1, WordChars)
                sp == RunFrom(s, i + 1 + w, SpaceChars)
                from == IF i + w + sp < Len(s) THEN i + w + sp + 1 ELSE Len(s)
            IN [matched |-> TRUE,
                plugin |-> SubSeq(s, i + 1, i + w),
                query |-> SubSeq(s, from, Len(s))]

parse_command(input) ==
    LET trimmed == Trim(input)
        caps == captures(trimmed)
    IN IF caps.matched
       THEN [kind |-> "PluginCall", plugin |-> caps.plugin, query |-> caps.query]
       ELSE [kind |-> "DefaultQuery", plugin |-> <<>>, query |-> trimmed]

\* CommandRouter::parse_command applied to an input
ParseCommand(t, input) ==
    /\ CanCall(t)
    /\ LET command == parse_command(input)
       IN call' = [call EXCEPT ![t] =
                     Returned([NoCall EXCEPT !.op = "parse_command",
                                             !.input = input,
                                             !.word = command.plugin,
                                             !.query = command.query],
                              command.kind)]
    /\ UNCHANGED <<plugins, plugin_specs, events, cogVars, schedVars, storeVars>>

(***************************************************************************)
(* SpecParse: the router parsing every input up to MaxInputLen characters  *)
(***************************************************************************)
NextParse == \E input \in Inputs : ParseCommand("t1", input)

SpecParse == Init /\ [][NextParse]_vars

\* the form @<word> <query>: the input, surrounding spaces aside, is "@", a
\* word, at least one space and a non-empty query
AtForm(input) ==
    LET s == Trim(input)
    IN \E w \in 1..Len(s), sp \in 1..Len(s) :
          /\ 1 + w + sp < Len(s)
          /\ s[1] = "@"
          /\ \A k \in 2..(1 + w) : IsWord(s[k])
          /\ \A k \in (2 + w)..(1 + w + sp) : IsSpace(s[k])
          /\ ~IsSpace(s[2 + w + sp])

AtFormWord(input) ==
    LET s == Trim(input) IN SubSeq(s, 2, 1 + RunFrom(s, 2, WordChars))

\* C18: an input is routed to the plugin named <word> exactly when it
\* matches the form @<word> <query>; every other input (no leading
\* @command, or an @word with no query) goes to the default plugin.
C18_RoutedByAtForm ==
    \A t \in Callers :
        call[t].op = "parse_command" =>
            IF AtForm(call[t].input)
            THEN /\ call[t].result = "PluginCall"
                 /\ call[t].word = AtFormWord(call[t].input)
            ELSE call[t].result = "DefaultQuery"

(***************************************************************************)
(* Routing (src/rust/src/plugin.rs): route, route_to_plugin, the memory    *)
(* interface handed to the handler and the logging of the exchange.        *)
(***************************************************************************)
\* CommandRouter.user_id and the plugin set by set_default_plugin
router_user_id == "u1"
default_plugin_id == "deeptalk"

\* route_to_plugin's deadline for on_query, in seconds
query_timeout == 30

\* the plugin id a word spells: "d" abbreviates decision, no other word of
\* the inputs is the id of a plugin on offer
PluginNamed(word) == IF word = <<"d">> THEN "decision" ELSE "unknown"

MemoryOps == {"query_events", "create_view", "create_event", "get_statistics", "query_entities"}

\* the level each operation of PluginMemoryInterface requires
RequiredLevel(mem_op) ==
    CASE mem_op = "query_events" -> ReadWriteEvents
      [] mem_op = "create_view" -> ReadWriteDerived
      [] mem_op = "create_event" -> ReadWriteEvents
      [] mem_op = "get_statistics" -> ReadOnly
      [] mem_op = "query_entities" -> ReadWriteDerived

\* PluginContext's permission check of an operation
context_allows(permission, mem_op) ==
    CASE mem_op = "query_events" -> can_create_events(permission)
      [] mem_op = "create_view" -> can_modify_views(permission)
      [] mem_op = "create_event" -> can_create_events(permission)
      [] mem_op = "get_statistics" -> TRUE
      [] mem_op = "query_entities" -> can_read_entities(permission)

\* MockMemoryInterface, the interface create_memory_interface hands out:
\* it touches no store
MockMemoryInterface(mem_op) ==
    IF mem_op \in {"create_view", "create_event"} THEN "Config" ELSE "Ok"

\* the kind of result a PluginContext operation returns
PluginContext_call(permission, mem_op) ==
    IF ~context_allows(permission, mem_op) THEN "Config" ELSE MockMemoryInterface(mem_op)

\* the event log_plugin_interaction builds
NewChatEvent(user_id, plugin_id, fresh_id) ==
    [ memory_id |-> fresh_id,
      user_id |-> user_id,
      actor |-> user_id,
      action |-> "chat_with_plugin",
      target |-> plugin_id,
      extractor_version |-> "command_router" ]

\* log_plugin_interaction: the event is built and dropped, the store stays
\* as it is
log_plugin_interaction(store, user_id, plugin_id) ==
    LET event == NewChatEvent(user_id, plugin_id, Len(store) + 1)
    IN store

\* IsolatedPlugin::health_check with the plugin reporting `healthy`
HealthCheck(p, healthy) ==
    /\ p \in InstalledIds
    /\ plugins' = [plugins EXCEPT ![p].is_healthy = healthy]
    /\ UNCHANGED <<plugin_specs, call, events, cogVars, schedVars, storeVars>>

\* CommandRouter::route up to its await of on_query
Route(t, input, will) ==
    /\ CanCall(t)
    /\ ~WriteLocked
    /\ LET command == parse_command(input)
           target == IF command.kind = "PluginCall" THEN PluginNamed(command.plugin)
                     ELSE default_plugin_id
           c == [NoCall EXCEPT !.op = "route", !.input = input, !.plugin = target,
                               !.word = command.plugin, !.query = command.query]
       IN call' = [call EXCEPT ![t] =
                     IF target \notin InstalledIds THEN Returned(c, "PluginNotFound")
                     ELSE IF ~plugins[target].is_healthy THEN Returned(c, "CommandResponse::Error")
                     ELSE Awaiting([c EXCEPT !.grant = plugins[target].permission],
                                   "on_query", will, query_timeout)]
    /\ UNCHANGED <<plugins, plugin_specs, events, cogVars, schedVars, storeVars>>

\* the running on_query handler calls an operation of its PluginContext
HandlerMemoryOp(t, mem_op) ==
    /\ call[t].op = "route" /\ call[t].pc = "await"
    /\ call[t].mem_op = "none"
    /\ call' = [call EXCEPT ![t].mem_op = mem_op,
                            ![t].mem_result = PluginContext_call(call[t].grant, mem_op)]
    /\ UNCHANGED <<plugins, plugin_specs, events, cogVars, schedVars, storeVars>>

\* route_to_plugin from the return of on_query on
QueryReturns(t) ==
    /\ call[t].op = "route" /\ call[t].pc = "await"
    /\ call[t].will \in {"ok", "err"}
    /\ IF call[t].will = "err"
       THEN /\ call' = [call EXCEPT ![t] = Returned(@, "HandlerError")]
            /\ UNCHANGED events
       ELSE /\ events' = log_plugin_interaction(events, router_user_id, call[t].plugin)
            /\ call' = [call EXCEPT ![t] =
                          Returned(@, IF call[t].word = <<>> THEN "CommandResponse::Default"
                                      ELSE "CommandResponse::Plugin")]
    /\ UNCHANGED <<plugins, plugin_specs, cogVars, schedVars, storeVars>>

(***************************************************************************)
(* SpecRouter: one caller routing inputs to two installed plugins          *)
(***************************************************************************)
RouteInputs == { <<"@", "d", " ", "?">>, <<"?">>, <<"@", "d", "d", " ", "?">> }

DecisionGrants == {ReadWriteDerived, ReadWriteEvents}

InitRouter ==
    /\ now = 0
    /\ views = <<>>
    /\ concepts = <<>>
    /\ \E g \in DecisionGrants :
          plugins = ("decision" :> IsolatedPlugin_new(g, max_restarts))
                        @@ ("deeptalk" :> IsolatedPlugin_new(ReadOnly, max_restarts))
    /\ plugin_specs = [p \in PluginIds |-> PluginSpec_from_metadata(PluginMetadata(p))]
    /\ CallersIdle
    /\ SchedulerInit
    /\ StoreInit

NextRouter ==
    \/ \E input \in RouteInputs, w \in HandlerBehaviours : Route("t1", input, w)
    \/ \E op \in MemoryOps : HandlerMemoryOp("t1", op)
    \/ QueryReturns("t1")
    \/ DeadlineExpires("t1")
    \/ \E p \in PluginIds, h \in BOOLEAN : HealthCheck(p, h)

SpecRouter == InitRouter /\ [][NextRouter]_vars

\* C13: every operation a plugin attempts through its memory interface that
\* needs a level above the plugin's grant fails with an error of the
\* Permission kind and leaves the stores unchanged: no event or view is
\* inserted.
C13_DeniedWithPermissionError ==
    [][\A t \in Callers :
         ( /\ call[t].mem_op = "none"
           /\ call'[t].mem_op # "none"
           /\ as_i32(RequiredLevel(call'[t].mem_op)) > as_i32(call[t].grant) )
         => /\ call'[t].mem_result = "PermissionDenied"
            /\ events' = events
            /\ views' = views]_vars

\* C14: whenever a handler invocation exceeds its deadline the caller is
\* handed a timeout error and the plugin's health flag is false after the
\* call returns.
C14_TimeoutMarksUnhealthy ==
    [][\A t \in Callers :
         ( /\ call[t].op = "route" /\ call[t].pc = "await" /\ call[t].will = "never"
           /\ call'[t].pc = "done" )
         => /\ call'[t].result = "PluginTimeout"
            /\ ~plugins'[call[t].plugin].is_healthy]_vars

\* C19: every exchange routed to a plugin inserts exactly one event into
\* the event store, with action chat_with_plugin, the plugin id as target,
\* the user as actor and a reference to the raw message of the exchange.
C19_ExchangeLoggedAsEvent ==
    [][\A t \in Callers :
         ( /\ call[t].op = "route" /\ call[t].pc = "await"
           /\ call'[t].result \in {"CommandResponse::Plugin", "CommandResponse::Default"} )
         => /\ Len(events') = Len(events) + 1
            /\ SubSeq(events', 1, Len(events)) = events
            /\ events'[Len(events')].action = "chat_with_plugin"
            /\ events'[Len(events')].target = call[t].plugin
            /\ events'[Len(events')].actor = router_user_id]_vars

(***************************************************************************)
(* Health monitoring (src/rust/src/plugin.rs): monitor and handle_crash.   *)
(* A pass collects the unhealthy plugins and handles them one by one; the  *)
(* check of the restart count, its increment and the health check after    *)
(* the backoff each take their lock on their own, so passes interleave     *)
(* between them.                                                           *)
(***************************************************************************)
\* IsolatedPlugin::can_restart
can_restart(plugin) == plugin.restart_count < plugin.max_restarts

\* monitor: the scan of the plugin map for unhealthy plugins
MonitorScan(t) ==
    /\ CanCall(t)
    /\ ~WriteLocked
    /\ call' = [call EXCEPT ![t] =
                  [NoCall EXCEPT !.op = "monitor", !.pc = "loop",
                                 !.crashed = {p \in InstalledIds : ~plugins[p].is_healthy}]]
    /\ UNCHANGED <<plugins, plugin_specs, events, cogVars, schedVars, storeVars>>

\* handle_crash: get_plugin and the can_restart check; an Err is printed by
\* monitor, which goes on to the next plugin
HandleCrashCheck(t, p) ==
    /\ call[t].op = "monitor" /\ call[t].pc = "loop"
    /\ p \in call[t].crashed \ call[t].processed
    /\ ~WriteLocked
    /\ call' = [call EXCEPT ![t] =
                  IF p \notin InstalledIds \/ ~can_restart(plugins[p])
                  THEN [@ EXCEPT !.processed = @ \cup {p}, !.recorded = @ \cup {p}]
                  ELSE [@ EXCEPT !.pc = "increment", !.plugin = p]]
    /\ UNCHANGED <<plugins, plugin_specs, events, cogVars, schedVars, storeVars>>

\* handle_crash: increment_restart_count, the backoff sleep and the call of
\* the plugin's health check
HandleCrashIncrement(t, will) ==
    /\ call[t].op = "monitor" /\ call[t].pc = "increment"
    /\ LET p == call[t].plugin
           restart_count == plugins[p].restart_count + 1
       IN /\ plugins' = [plugins EXCEPT ![p].restart_count = restart_count]
          /\ call' = [call EXCEPT ![t] =
                        Awaiting([@ EXCEPT !.backoff = restart_backoff * restart_count],
                                 "health_check", will, NoDeadline)]
    /\ UNCHANGED <<plugin_specs, events, cogVars, schedVars, storeVars>>

\* handle_crash from the return of the health check on
HealthCheckReturns(t, healthy) ==
    /\ call[t].op = "monitor" /\ call[t].pc = "await"
    /\ call[t].will \in {"ok", "err"}
    /\ LET p == call[t].plugin
       IN IF call[t].will = "ok"
          THEN /\ plugins' = [plugins EXCEPT ![p].is_healthy = healthy]
               /\ call' = [call EXCEPT ![t].pc = "loop", ![t].processed = @ \cup {p}]
          ELSE /\ UNCHANGED plugins
               /\ call' = [call EXCEPT ![t].pc = "loop", ![t].processed = @ \cup {p},
                                       ![t].recorded = @ \cup {p}]
    /\ UNCHANGED <<plugin_specs, events, cogVars, schedVars, storeVars>>

\* monitor returns Ok(()) once the list is exhausted
MonitorReturn(t) ==
    /\ call[t].op = "monitor" /\ call[t].pc = "loop"
    /\ call[t].crashed \subseteq call[t].processed
    /\ call' = [call EXCEPT ![t] = Returned(@, "Ok")]
    /\ UNCHANGED <<plugins, plugin_specs, events, cogVars, schedVars, storeVars>>

(***************************************************************************)
(* SpecMonitor: two monitoring passes over two installed plugins whose     *)
(* health checks come and go                                               *)
(***************************************************************************)
InitMonitor ==
    /\ now = 0
    /\ views = <<>>
    /\ concepts = <<>>
    /\ plugins = [p \in PluginIds |->
                    IsolatedPlugin_new(PluginMetadata(p).required_permission, max_restarts)]
    /\ plugin_specs = [p \in PluginIds |-> PluginSpec_from_metadata(PluginMetadata(p))]
    /\ CallersIdle
    /\ SchedulerInit
    /\ StoreInit

NextMonitor ==
    \/ \E p \in PluginIds : HealthCheck(p, FALSE)
    \/ \E t \in Callers : MonitorScan(t)
    \/ \E t \in Callers, p \in PluginIds : HandleCrashCheck(t, p)
    \/ \E t \in Callers, w \in HandlerBehaviours : HandleCrashIncrement(t, w)
    \/ \E t \in Callers, h \in BOOLEAN : HealthCheckReturns(t, h)
    \/ \E t \in Callers : MonitorReturn(t)

SpecMonitor == InitMonitor /\ [][NextMonitor]_vars

\* C16: an unhealthy plugin is restarted after a delay of base times
\* restart_count and at most cap times: restart_count never exceeds the
\* cap, also when monitoring passes overlap.
C16_RestartCountWithinCap ==
    \A p \in InstalledIds : plugins[p].restart_count <= plugins[p].max_restarts

\* C17: when one plugin fails, times out or crashes while the manager is
\* handling several, the failure is recorded and every other plugin is
\* still processed: a pass that has recorded all it handled and still has
\* other plugins to handle is never held up for good by the one it is
\* handling.
C17_SiblingsStillProcessed ==
    \A t \in Callers :
        call[t].op = "monitor" =>
            /\ call[t].recorded \subseteq call[t].processed
            /\ ( /\ call[t].pc = "await"
                 /\ call[t].crashed \ call[t].processed # {call[t].plugin} )
               => \E h \in BOOLEAN : ENABLED HealthCheckReturns(t, h)

(***************************************************************************)
(* The resource-aware scheduler (src/rust/src/resource_manager.rs).        *)
(* Memory is counted in MB of a machine of total_mb MB and the clock in    *)
(* ticks of 1/TicksPerSec second; cooldown_sec is in whole seconds, as in  *)
(* the code, and Duration::as_secs truncates.  used_percent = used_mb /    *)
(* total_mb * 100 is compared with 95.0 by cross-multiplication: with      *)
(* total_mb = 100 the f64 quotient times 100 rounds to the integer used_mb.*)
(***************************************************************************)
Critical == "Critical"
High == "High"
Medium == "Medium"
Low == "Low"
TaskPriorities == {Critical, High, Medium, Low}

\* ScheduledTask::new, with a small and a large estimated_memory_mb
ScheduledTasks ==
    [ priority : TaskPriorities, estimated_memory_mb : {1, 50} ]

\* MemAvailable as /proc/meminfo may report it: used 100, 96, 95, 50, 0 MB
AvailableLevels == {0, 4, 5, 50, 100}

\* the instants at which the system clock is read
Secs(n) == n * TicksPerSec

\* Duration::as_secs: the whole seconds of a duration
as_secs(d) == d \div TicksPerSec

ClockPoints ==
    {0, Secs(breaker_cooldown_sec) - 1, Secs(breaker_cooldown_sec),
     Secs(breaker_cooldown_sec) + 1, Secs(breaker_cooldown_sec + 1),
     Secs(2 * breaker_cooldown_sec + 2)}

used_mb(u) == u.total_mb - u.available_mb

\* MemoryUsage::is_critical
is_critical_above_96(u) == 100 * used_mb(u) > 96 * u.total_mb

is_critical(u) == 100 * used_mb(u) > 95 * u.total_mb

\* ScheduledTask::can_run
can_run(task, available_memory_mb) == task.estimated_memory_mb <= available_memory_mb

\* CircuitBreaker::allow_task at instant t: the breaker it leaves
allow_task(cb, t) ==
    IF as_secs(t - cb.last_check) > cb.cooldown_sec
    THEN [cb EXCEPT !.is_open = FALSE] ELSE cb

\* CircuitBreaker::trip at instant t
trip(cb, t) == [cb EXCEPT !.is_open = TRUE, !.last_check = t]

\* ResourceAwareScheduler::should_schedule: the answer and the breaker it
\* leaves
should_schedule(task, cb, u, t) ==
    IF task.priority = Critical THEN [result |-> TRUE, breaker |-> cb]
    ELSE LET checked == IF cb.is_open THEN allow_task(cb, t) ELSE cb
         IN IF cb.is_open /\ checked.is_open
            THEN [result |-> FALSE, breaker |-> checked]
            ELSE IF is_critical(u)
            THEN [result |-> FALSE, breaker |-> trip(checked, t)]
            ELSE [result |-> can_run(task, u.available_mb), breaker |-> checked]

\* a call of should_schedule; the decision keeps what the call saw
ShouldSchedule(task) ==
    /\ LET answer == should_schedule(task, circuit_breaker, usage, sys_time)
       IN /\ circuit_breaker' = answer.breaker
          /\ decision' = [ task |-> task, result |-> answer.result, usage |-> usage,
                           breaker |-> circuit_breaker, at |-> sys_time ]
    /\ UNCHANGED <<usage, sys_time, pluginVars, cogVars, storeVars>>

\* the operating system's memory reading changes
MemoryChanges(available_mb) ==
    /\ available_mb # usage.available_mb
    /\ usage' = [usage EXCEPT !.available_mb = available_mb]
    /\ UNCHANGED <<circuit_breaker, sys_time, decision, pluginVars, cogVars, storeVars>>

\* the system clock advances
ClockAdvances(t) ==
    /\ t > sys_time
    /\ sys_time' = t
    /\ UNCHANGED <<usage, circuit_breaker, decision, pluginVars, cogVars, storeVars>>

(***************************************************************************)
(* SpecScheduler: tasks offered to the scheduler while memory and time     *)
(* move                                                                    *)
(***************************************************************************)
NextScheduler ==
    \/ \E task \in ScheduledTasks : ShouldSchedule(task)
    \/ \E a \in AvailableLevels : MemoryChanges(a)
    \/ \E t \in ClockPoints : ClockAdvances(t)

SpecScheduler == Init /\ [][NextScheduler]_vars

\* more than 95% of the memory is in use
UsedAbove95(u) == 100 * (u.total_mb - u.available_mb) > 95 * u.total_mb

\* C20: whenever memory is critical (used > 95%) the scheduler admits only
\* Critical-priority tasks: no High, Medium or Low task is scheduled in a
\* critical-memory state, whatever the breaker's history and whether or not
\* its cooldown has expired; a Critical task is admitted.
C20_CriticalMemoryAdmitsOnlyCritical ==
    (decision # NoDecision /\ UsedAbove95(decision.usage)) =>
        (decision.result <=> decision.task.priority = Critical)

\* a High task that fits the memory left, refused at 96% used by a breaker
\* that was open with its cooldown expired
C20_Witness ==
    /\ decision # NoDecision
    /\ decision.task.priority = High
    /\ used_mb(decision.usage) = 96
    /\ can_run(decision.task, decision.usage.available_mb)
    /\ decision.breaker.is_open
    /\ as_secs(decision.at - decision.breaker.last_check) > decision.breaker.cooldown_sec
    /\ ~decision.result
    /\ circuit_breaker.is_open
    /\ circuit_breaker.last_check = decision.at

\* C21: once the breaker has tripped, every High, Medium and Low task is
\* refused until the cooldown window has fully elapsed, even when memory has
\* recovered; once the window has elapsed and memory is no longer critical, a
\* task that fits the available memory is admitted again.
C21_RefusedDuringCooldownAdmittedAfter ==
    (decision # NoDecision /\ decision.task.priority # Critical
        /\ decision.breaker.is_open) =>
        LET elapsed == decision.at - decision.breaker.last_check
            window == Secs(decision.breaker.cooldown_sec)
        IN /\ elapsed < window => ~decision.result
           /\ (elapsed > window /\ ~UsedAbove95(decision.usage)
                 /\ can_run(decision.task, decision.usage.available_mb))
                => decision.result

(***************************************************************************)
(* The entity linker (src/rust/src/entity_linker.rs).  Every call runs on  *)
(* the caller's own connection, one SQL statement at a time and outside    *)
(* any transaction, so the statements of two calls interleave.  Canonical  *)
(* names are the strings the mentions of the model normalise to.           *)
(***************************************************************************)
MaxLinks == 2

Mentions == {"pingguo", "apple inc", "bob"}

\* EntityLinker::normalize_mention: the alias table, then lowercase with a
\* capital first letter for an ASCII mention
normalize_mention(mention) ==
    CASE mention \in {"pingguo", "apple inc"} -> "Apple"
      [] mention = "bob" -> "Bob"

similarity_threshold == 75

\* EntityLinker::jaro_winkler_similarity in hundredths: 1.0 for equal
\* strings, 0.0 when no character matches ("Apple" and "Bob" share none)
jaro_winkler_similarity(s1, s2) ==
    CASE s1 = s2 -> 100
      [] {s1, s2} = {"Apple", "Bob"} -> 0

\* NewEntity::new
NewEntity_new(user_id, canonical_name) ==
    [ user_id |-> user_id, canonical_name |-> canonical_name, occurrence_count |-> 1 ]

EntityIds == DOMAIN entities

\* the rows find_exact_match's query selects from (LIMIT 1 without ORDER BY)
find_exact_match(uid, cname) ==
    {e \in EntityIds : entities[e].user_id = uid /\ entities[e].canonical_name = cname}

\* the candidates of find_fuzzy_match
find_fuzzy_match(uid, cname) ==
    {e \in EntityIds :
        /\ entities[e].user_id = uid
        /\ jaro_winkler_similarity(entities[e].canonical_name, cname) >= similarity_threshold}

CanStore(t) == job[t].pc \in {"idle", "done"}

\* link_entity up to the answer of find_exact_match
LinkEntity(t, uid, mention) ==
    /\ CanStore(t)
    /\ job[t].calls < MaxLinks
    /\ LET cname == normalize_mention(mention)
           j == [NoJob EXCEPT !.op = "link_entity", !.user_id = uid,
                              !.canonical_name = cname, !.calls = job[t].calls + 1]
       IN IF find_exact_match(uid, cname) # {}
          THEN \E e \in find_exact_match(uid, cname) :
                  job' = [job EXCEPT ![t] =
                            [j EXCEPT !.pc = "update", !.entity = e,
                                      !.occurrence_count = entities[e].occurrence_count]]
          ELSE job' = [job EXCEPT ![t] = [j EXCEPT !.pc = "fuzzy"]]
    /\ UNCHANGED <<entities, raw_memories, event_memories, cache, cogVars, pluginVars, schedVars>>

\* link_entity from the answer of find_fuzzy_match on
LinkFuzzy(t) ==
    /\ job[t].op = "link_entity" /\ job[t].pc = "fuzzy"
    /\ LET candidates == find_fuzzy_match(job[t].user_id, job[t].canonical_name)
       IN IF candidates # {}
          THEN \E e \in candidates :
                  job' = [job EXCEPT ![t].pc = "update", ![t].entity = e,
                                     ![t].occurrence_count = entities[e].occurrence_count]
          ELSE job' = [job EXCEPT ![t].pc = "create"]
    /\ UNCHANGED <<entities, raw_memories, event_memories, cache, cogVars, pluginVars, schedVars>>

\* EntityLinker::update_entity: the count read earlier plus one is written
UpdateEntity(t) ==
    /\ job[t].op = "link_entity" /\ job[t].pc = "update"
    /\ entities' = [entities EXCEPT ![job[t].entity].occurrence_count =
                                        job[t].occurrence_count + 1]
    /\ job' = [job EXCEPT ![t].pc = "done", ![t].result = "Ok"]
    /\ UNCHANGED <<raw_memories, event_memories, cache, cogVars, pluginVars, schedVars>>

\* EntityLinker::create_entity
CreateEntity(t) ==
    /\ job[t].op = "link_entity" /\ job[t].pc = "create"
    /\ LET id == Cardinality(EntityIds) + 1
       IN /\ entities' = entities @@
                (id :> ([entity_id |-> id] @@
                            NewEntity_new(job[t].user_id, job[t].canonical_name)))
          /\ job' = [job EXCEPT ![t].pc = "done", ![t].entity = id, ![t].result = "Ok"]
    /\ UNCHANGED <<raw_memories, event_memories, cache, cogVars, pluginVars, schedVars>>

(***************************************************************************)
(* SpecLinker: two callers linking mentions concurrently                   *)
(***************************************************************************)
NextLinker ==
    \/ \E t \in Callers, uid \in Users, m \in Mentions : LinkEntity(t, uid, m)
    \/ \E t \in Callers : LinkFuzzy(t)
    \/ \E t \in Callers : UpdateEntity(t)
    \/ \E t \in Callers : CreateEntity(t)

SpecLinker == Init /\ [][NextLinker]_vars

\* a step in which caller t's link call completes
LinkReturns(t) ==
    /\ job[t].op = "link_entity"
    /\ job[t].pc \in {"update", "create"}
    /\ job'[t].pc = "done"

\* C22: after any interleaving of concurrent link calls for one (owner,
\* canonical-name) exactly one entity exists for the pair and its
\* occurrence_count reflects every link: no two rows share a pair, and each
\* completed link either creates the pair's row with count 1 or raises the
\* stored count of the pair's row by one.
C22_ConcurrentLinksCounted ==
    [][/\ \A c, d \in DOMAIN entities' :
             (/\ entities'[c].user_id = entities'[d].user_id
              /\ entities'[c].canonical_name = entities'[d].canonical_name) => c = d
       /\ \A t \in Callers :
             LinkReturns(t) =>
                LET before == find_exact_match(job[t].user_id, job[t].canonical_name)
                IN IF before = {}
                   THEN entities'[job'[t].entity].occurrence_count = 1
                   ELSE \A e \in before :
                           entities'[e].occurrence_count = entities[e].occurrence_count + 1
      ]_vars

(***************************************************************************)
(* Event storage (src/rust/src/event_storage.rs, src/rust/src/models.rs).  *)
(* Every statement is executed on its own on the caller's connection; the  *)
(* database answers a statement with Ok or with an error.  Confidence is   *)
(* in hundredths; a quantity is the text of its number, an absent quantity *)
(* or unit is None.                                                        *)
(***************************************************************************)
MaxRaw == 2
MaxEvents == 2

None == "None"
Quantities == {None, "3"}
Units == {None, "ge"}
EventConfidences == {-10, 50, 100, 150}
DbOutcomes == {"ok", "err"}

\* NewEventMemory::new
NewEventMemory_new(memory_id, user_id) ==
    [ memory_id |-> memory_id, user_id |-> user_id,
      quantity |-> None, unit |-> None, confidence |-> 50 ]

\* NewEventMemory::with_quantity
with_quantity(ev, quantity, unit) == [ev EXCEPT !.quantity = quantity, !.unit = unit]

\* NewEventMemory::with_confidence: the value is stored as given
event_with_confidence(ev, confidence) == [ev EXCEPT !.confidence = confidence]

\* EventMemory::validate
validate(self) ==
    IF self.confidence < 0 \/ self.confidence > 100 THEN "Err"
    ELSE IF (self.quantity # None /\ self.unit = None)
              \/ (self.quantity = None /\ self.unit # None) THEN "Err"
    ELSE "Ok"

\* the table's constraint with_quantity refers to: quantity and unit are set
\* together
quantity_unit_constraint(ev) == (ev.quantity = None) <=> (ev.unit = None)

RawIds == DOMAIN raw_memories
EventRowIds == DOMAIN event_memories

\* EventStorage::process_input_sync
ProcessInputSync(t, uid, outcome) ==
    /\ CanStore(t)
    /\ Cardinality(RawIds) < MaxRaw
    /\ LET id == Cardinality(RawIds) + 1
           j == [NoJob EXCEPT !.op = "process_input_sync", !.pc = "done", !.user_id = uid]
       IN IF outcome = "ok"
          THEN /\ raw_memories' = raw_memories @@ (id :> [memory_id |-> id, user_id |-> uid])
               /\ job' = [job EXCEPT ![t] = [j EXCEPT !.memory_id = id, !.result = "Ok"]]
          ELSE /\ job' = [job EXCEPT ![t] = [j EXCEPT !.result = "Database"]]
               /\ UNCHANGED raw_memories
    /\ UNCHANGED <<entities, event_memories, cache, cogVars, pluginVars, schedVars>>

\* EventStorage::insert_event for an event of the raw memory the caller has
\* written
InsertEvent(t, ev, outcome) ==
    /\ CanStore(t)
    /\ job[t].op \in {"process_input_sync", "insert_event"}
    /\ job[t].result = "Ok"
    /\ Cardinality(EventRowIds) < MaxEvents
    /\ LET id == Cardinality(EventRowIds) + 1
           j == [job[t] EXCEPT !.op = "insert_event"]
       IN IF outcome = "ok" /\ quantity_unit_constraint(ev)
          THEN /\ event_memories' = event_memories @@ (id :> ([event_id |-> id] @@ ev))
               /\ job' = [job EXCEPT ![t] = j]
          ELSE /\ job' = [job EXCEPT ![t] = [j EXCEPT !.result = "Database"]]
               /\ UNCHANGED event_memories
    /\ UNCHANGED <<entities, raw_memories, cache, cogVars, pluginVars, schedVars>>

(***************************************************************************)
(* SpecIngest: two callers writing raw memories and their events           *)
(***************************************************************************)
NextIngest ==
    \/ \E t \in Callers, uid \in Users, o \in DbOutcomes : ProcessInputSync(t, uid, o)
    \/ \E t \in Callers, q \in Quantities, u \in Units, c \in EventConfidences,
          o \in DbOutcomes :
          InsertEvent(t, event_with_confidence(with_quantity(
                             NewEventMemory_new(job[t].memory_id, job[t].user_id), q, u), c), o)

SpecIngest == Init /\ [][NextIngest]_vars

\* a step in which a statement of caller t's ingestion fails after its raw
\* row was written
IngestionFails(t) ==
    /\ job[t].result = "Ok"
    /\ job[t].memory_id \in RawIds
    /\ job'[t].op = "insert_event"
    /\ job'[t].result # "Ok"

\* C23: ingestion is atomic: if any step fails after the raw row is written,
\* no raw row and no event of that ingestion remains visible.
C23_IngestionAtomic ==
    [][\A t \in Callers :
         IngestionFails(t) =>
            /\ job[t].memory_id \notin DOMAIN raw_memories'
            /\ \A e \in DOMAIN event_memories' :
                  event_memories'[e].memory_id # job[t].memory_id]_vars

\* C25: every persisted event has quantity present if and only if unit is
\* present and a confidence within [0, 1]: an event violating either
\* condition is never stored.
C25_StoredEventsValid ==
    \A e \in EventRowIds : validate(event_memories[e]) = "Ok"

(***************************************************************************)
(* The embedding cache (src/rust/src/embedding.rs).  The cache is a        *)
(* HashMap from text to embedding; the model keeps, for every cached text, *)
(* the rank of its insertion in place of the embedding.  The generator's   *)
(* cache holds up to max_size entries (1000 in the code).                  *)
(***************************************************************************)
max_size == 2
MaxInserts == 4

Texts == {"a", "b", "c"}
HttpOutcomes == {"ok", "err"}

CachedTexts == DOMAIN cache

\* the rank the next insertion gets
NextRank ==
    IF CachedTexts = {} THEN 1
    ELSE 1 + (CHOOSE r \in {cache[k] : k \in CachedTexts} :
                 \A k \in CachedTexts : cache[k] <= r)

\* EmbeddingCache::set; first_key is the key cache.keys().next() yields,
\* which for a HashMap is any of its keys
EmbeddingCache_set(c, key, first_key, rank) ==
    LET kept == IF Cardinality(DOMAIN c) >= max_size
                THEN [k \in DOMAIN c \ {first_key} |-> c[k]]
                ELSE c
    IN IF key \in DOMAIN kept THEN kept ELSE kept @@ (key :> rank)

\* EmbeddingGenerator::generate up to its request to the embedding service
Generate(t, text) ==
    /\ CanStore(t)
    /\ LET j == [NoJob EXCEPT !.op = "generate", !.text = text]
       IN IF text \in CachedTexts
          THEN job' = [job EXCEPT ![t] = [j EXCEPT !.pc = "done", !.result = "Ok"]]
          ELSE job' = [job EXCEPT ![t] = [j EXCEPT !.pc = "http"]]
    /\ UNCHANGED <<entities, raw_memories, event_memories, cache, cogVars, pluginVars, schedVars>>

\* generate from the answer of the embedding service on
GenerateReturns(t, outcome) ==
    /\ job[t].op = "generate" /\ job[t].pc = "http"
    /\ IF outcome = "err"
       THEN /\ job' = [job EXCEPT ![t].pc = "done", ![t].result = "Encryption"]
            /\ UNCHANGED cache
       ELSE /\ NextRank <= MaxInserts
            /\ \E first_key \in (IF CachedTexts = {} THEN {job[t].text} ELSE CachedTexts) :
                  cache' = EmbeddingCache_set(cache, job[t].text, first_key, NextRank)
            /\ job' = [job EXCEPT ![t].pc = "done", ![t].result = "Ok"]
    /\ UNCHANGED <<entities, raw_memories, event_memories, cogVars, pluginVars, schedVars>>

(***************************************************************************)
(* SpecCache: two callers generating embeddings                            *)
(***************************************************************************)
NextCache ==
    \/ \E t \in Callers, text \in Texts : Generate(t, text)
    \/ \E t \in Callers, o \in HttpOutcomes : GenerateReturns(t, o)

SpecCache == Init /\ [][NextCache]_vars

\* C24: after any sequence of insertions the embedding cache holds at most
\* its configured maximum number of entries, and whenever an insertion
\* forces an eviction the evicted entry is the one inserted earliest among
\* those cached.
C24_CacheBoundedFirstInEviction ==
    [][/\ Cardinality(DOMAIN cache') <= max_size
       /\ \A k \in DOMAIN cache \ DOMAIN cache' :
             \A other \in DOMAIN cache : cache[k] <= cache[other]]_vars

=============================================================================
